---- MODULE Spec2Model ----
(***************************************************************************)
(* A model of src/app.py: the campground reporting dashboard.  Three       *)
(* request handlers (/, /summaries, /booking-confirmation/booking-id:<id>) *)
(* read two external stores.  Each handler is one action; what a handler   *)
(* did is recorded in `response` (what the caller gets), `trace` (the      *)
(* calls it made, in order) and `logged` (its diagnostics).                *)
(***************************************************************************)
EXTENDS Integers, Sequences, FiniteSets, TLC

VARIABLES
    environ,             \* os.environ: a partial map from variable name to string
    booking_collection,  \* campground.booking, in storage order
    open_clients,        \* MongoClient objects constructed and not yet closed
    open_connections,    \* pyodbc connections opened and not yet closed
    request,             \* the last request and what the stores did to it
    response,            \* the last response
    trace,               \* the calls the last handler made, in order
    logged               \* the messages the last handler logged

vars == <<environ, booking_collection, open_clients, open_connections,
          request, response, trace, logged>>

----------------------------------------------------------------------------
(* Bounds of the exploration. *)

MaxDocs == 2
MaxDate == 2
MaxSites == 2
MaxLeak == 1

(* Program constants. *)

Nights == 7
CampgroundId == 1167560

----------------------------------------------------------------------------
(* Python values. *)

None == [py |-> "None"]
Str(s) == [py |-> "str", value |-> s]

\* bool(v) for the values os.environ.get returns: None and "" are falsy.
Truthy(v) == v # None /\ v # Str("")

\* os.environ.get(name): the string, or None when the variable is unset.
os_environ_get(name) ==
    IF name \in DOMAIN environ THEN Str(environ[name]) ELSE None

\* bson.Binary(data): a bytes value tagged with the default subtype 0.
Binary(data) == [py |-> "Binary", subtype |-> 0, data |-> data]

\* Every exception the handlers meet derives from Exception, werkzeug's
\* HTTPException (raised by abort) included, so `except Exception` catches it.
ExceptionSubclasses ==
    {"ValueError", "KeyError", "PyMongoError", "pyodbc.Error",
     "TemplateError", "NotFound"}

except_Exception(exc_type) == exc_type \in ExceptionSubclasses

----------------------------------------------------------------------------
(* Responses. *)

\* (render_template(template, ...), status)
HtmlResponse(status, template, message, bookings, summaries) ==
    [status |-> status, mimetype |-> "text/html", download_name |-> "",
     template |-> template, message |-> message,
     bookings |-> bookings, summaries |-> summaries, data |-> ""]

ErrorPage(message) == HtmlResponse(500, "error.html", message, <<>>, <<>>)

\* send_file(BytesIO(data), mimetype=..., download_name=...)
send_file(data, mimetype, download_name) ==
    [status |-> 200, mimetype |-> mimetype, download_name |-> download_name,
     template |-> "", message |-> "",
     bookings |-> <<>>, summaries |-> <<>>, data |-> data]

\* What Flask answers when an HTTPException leaves a view function.
HttpErrorResponse(code, description) ==
    [status |-> code, mimetype |-> "text/html", download_name |-> "",
     template |-> "", message |-> description,
     bookings |-> <<>>, summaries |-> <<>>, data |-> ""]

\* Variant: the text of the exception is appended to the page's message.
except_clause_verbatim(message, error) == ErrorPage(message \o " " \o error)

\* except Exception as e: ...; return render_template('error.html',
\* message=<the handler's fixed text>), 500.  The text of e goes to the log.
except_clause(message, error) == ErrorPage(message)

NoResponse == HtmlResponse(0, "", "", <<>>, <<>>)

----------------------------------------------------------------------------
(* Sorting as the stores do it: ascending on one field, stable. *)

RECURSIVE InsertByField(_, _, _)
InsertByField(rec, sorted, field) ==
    IF sorted = <<>> THEN <<rec>>
    ELSE IF rec[field] < Head(sorted)[field]
         THEN <<rec>> \o sorted
         ELSE <<Head(sorted)>> \o InsertByField(rec, Tail(sorted), field)

RECURSIVE SortByField(_, _)
SortByField(recs, field) ==
    IF recs = <<>> THEN <<>>
    ELSE InsertByField(recs[Len(recs)],
                       SortByField(SubSeq(recs, 1, Len(recs) - 1), field),
                       field)

----------------------------------------------------------------------------
(* The classes. *)

Campsite(site_id, site_size, daily_rate) ==
    [site_id |-> site_id, site_size |-> site_size, daily_rate |-> daily_rate]

Customer(first_name, last_name, phone_no, address, post_code) ==
    [first_name |-> first_name, last_name |-> last_name, phone_no |-> phone_no,
     address |-> address, post_code |-> post_code]

\* The loop of Booking.calculate_total_price, from campsite i on.
RECURSIVE total_price_loop(_, _, _)
total_price_loop(campsites, i, total_price) ==
    IF i > Len(campsites) THEN total_price
    ELSE total_price_loop(campsites, i + 1,
                          total_price + campsites[i].daily_rate * Nights)

\* Variant: the first campsite is charged one night instead of seven.
calculate_total_price_x1(campsites) ==
    IF campsites = <<>> THEN 0
    ELSE total_price_loop(campsites, 2, campsites[1].daily_rate)

calculate_total_price(campsites) == total_price_loop(campsites, 1, 0)

Booking(booking_id, customer, campsites, booking_date, arrival_date, pdf) ==
    [booking_id |-> booking_id, customer |-> customer, campsites |-> campsites,
     booking_date |-> booking_date, arrival_date |-> arrival_date,
     total_price |-> calculate_total_price(campsites),
     booking_confirmation_pdf |-> pdf]

----------------------------------------------------------------------------
(* The relational store.  camping.summary is owned elsewhere and is not     *)
(* written by this program.                                                *)

SummaryTable ==
    << [campground_id |-> CampgroundId, summary_date |-> 2,
        total_sales |-> 385, total_bookings |-> 1],
       [campground_id |-> 42, summary_date |-> 1,
        total_sales |-> 140, total_bookings |-> 1],
       [campground_id |-> CampgroundId, summary_date |-> 1,
        total_sales |-> 770, total_bookings |-> 2] >>

\* SELECT ... FROM camping.summary WHERE campground_id = 1167560
\* ORDER BY summary_date
SelectSummaries ==
    SortByField(SelectSeq(SummaryTable,
                          LAMBDA row : row.campground_id = CampgroundId),
                "summary_date")

SqlVariables == <<"DRIVER", "SERVER", "DATABASE", "DB_USERNAME", "DB_PASSWORD">>

\* Variant: the password is left out of the completeness test.
all_but_last(values) == \A i \in 1..(Len(values) - 1) : Truthy(values[i])

\* all([driver, server, database, username, password])
all(values) == \A i \in 1..Len(values) : Truthy(values[i])

Connection == [py |-> "pyodbc.Connection"]

\* head_office_db_connection(): `fault` names the call the store makes fail
\* during this request ("" for none) and `error` is the text of its exception.
head_office_db_connection(fault, error) ==
    LET values == [i \in 1..Len(SqlVariables) |-> os_environ_get(SqlVariables[i])]
        prefix == "Error connecting to the head office database: "
    IN  IF ~all(values)
        THEN [connection |-> None, opened |-> 0,
              trace |-> <<"logging.error">>,
              logged |-> <<prefix \o
                  "Database connection environment variables are not fully set.">>]
        ELSE IF fault = "pyodbc.connect"
        THEN [connection |-> None, opened |-> 0,
              trace |-> <<"pyodbc.connect", "logging.error">>,
              logged |-> <<prefix \o error>>]
        ELSE [connection |-> Connection, opened |-> 1,
              trace |-> <<"pyodbc.connect">>,
              logged |-> <<>>]

\* Variant: cursor and connection are closed before the rows are fetched.
SummariesSteps_close_first ==
    <<"connection.cursor", "cursor.execute", "cursor.close",
      "connection.close", "cursor.fetchall", "render_template">>

\* The calls of the try block of summaries() once the connection is there.
SummariesSteps ==
    <<"connection.cursor", "cursor.execute", "cursor.fetchall",
      "cursor.close", "connection.close", "render_template">>

IndexOf(seq, x) == CHOOSE i \in 1..Len(seq) : seq[i] = x

\* summaries(): the response, and what the handler did on the way.
summaries(fault, error) ==
    LET c == head_office_db_connection(fault, error) IN
    IF c.connection = None
    THEN [response |-> ErrorPage("Unable to connect to the database."),
          trace |-> c.trace \o <<"logging.error", "render_template">>,
          logged |-> c.logged \o <<"SQL Server connection failed.">>,
          opened |-> c.opened, closed |-> 0]
    ELSE IF \E i \in 1..Len(SummariesSteps) : SummariesSteps[i] = fault
    THEN \* the call raises; the except clause answers; nothing else runs
         LET done == SubSeq(SummariesSteps, 1, IndexOf(SummariesSteps, fault))
         IN [response |->
                 except_clause("An error occurred while fetching summaries.",
                               error),
             trace |-> c.trace \o done \o <<"logging.error", "render_template">>,
             logged |-> c.logged \o <<"Error fetching summaries: " \o error>>,
             opened |-> c.opened,
             closed |-> IF IndexOf(SummariesSteps, "connection.close") < Len(done)
                        THEN 1 ELSE 0]
    ELSE [response |-> HtmlResponse(200, "summaries-dashboard.html", "",
                                    <<>>, SelectSummaries),
          trace |-> c.trace \o SummariesSteps,
          logged |-> c.logged,
          opened |-> c.opened, closed |-> 1]

----------------------------------------------------------------------------
(* The document store. *)

HasPdf(booking) == "booking_confirmation_pdf" \in DOMAIN booking

Client == [py |-> "MongoClient"]

\* campground_mongo_db_connection().  The client exists from the moment
\* MongoClient(...) returns; a failing ping leaves by the except clause, which
\* returns None and does not close it.
campground_mongo_db_connection(fault, error) ==
    LET CONNECTION_STRING == os_environ_get("CONNECTION_STRING")
        prefix == "Error connecting to the campgrounds MongoDB database: "
    IN  IF ~Truthy(CONNECTION_STRING)
        THEN [client |-> None, opened |-> 0,
              trace |-> <<"logging.error">>,
              logged |-> <<prefix \o
                  "CONNECTION_STRING environment variable not set.">>]
        ELSE IF fault = "MongoClient"
        THEN [client |-> None, opened |-> 0,
              trace |-> <<"MongoClient", "logging.error">>,
              logged |-> <<prefix \o error>>]
        ELSE IF fault = "ping"
        THEN [client |-> None, opened |-> 1,
              trace |-> <<"MongoClient", "ping", "logging.error">>,
              logged |-> <<prefix \o error>>]
        ELSE [client |-> Client, opened |-> 1,
              trace |-> <<"MongoClient", "ping">>,
              logged |-> <<>>]

\* Variant: find({}) without the sort.
find_unsorted(collection) == collection

\* booking_collection.find({}).sort("booking_date", 1): what the cursor will
\* deliver once it is iterated.
find_sorted(collection) == SortByField(collection, "booking_date")

\* The Booking the list comprehension of bookings() builds from one document
\* that has every field it indexes.
NormalizeBooking(booking) ==
    Booking(booking.booking_id,
            Customer(booking.customer.first_name, booking.customer.last_name,
                     booking.customer.phone_no, booking.customer.address,
                     booking.customer.post_code),
            [i \in 1..Len(booking.campsites) |->
                Campsite(booking.campsites[i].site_id,
                         booking.campsites[i].site_size,
                         booking.campsites[i].daily_rate)],
            booking.booking_date,
            booking.arrival_date,
            Binary(booking.booking_confirmation_pdf))

Repeat(n, x) == [i \in 1..n |-> x]

\* The finally clause of bookings() and booking_confirmation_pdfs().
close_if_client(client) ==
    IF client # None
    THEN [trace |-> <<"client.close">>, closed |-> 1]
    ELSE [trace |-> <<>>, closed |-> 0]

\* bookings(): the response, and what the handler did on the way.
bookings(fault, error) ==
    LET c == campground_mongo_db_connection(fault, error)
        finally == close_if_client(c.client)
        failed(tr, msg) ==
            [response |->
                 except_clause("An error occurred while fetching bookings.", msg),
             trace |-> c.trace \o tr \o <<"logging.error", "render_template">>
                       \o finally.trace,
             logged |-> c.logged \o <<"Error fetching bookings: " \o msg>>,
             opened |-> c.opened, closed |-> finally.closed]
    IN
    IF c.client = None
    THEN [response |-> ErrorPage("Unable to connect to the database."),
          trace |-> c.trace \o <<"logging.error", "render_template">>
                    \o finally.trace,
          logged |-> c.logged \o <<"MongoDB connection failed.">>,
          opened |-> c.opened, closed |-> finally.closed]
    ELSE
    LET bookings_cursor == find_sorted(booking_collection)
        n == Len(bookings_cursor)
        \* the documents the comprehension cannot index
        bad == {i \in 1..n : ~HasPdf(bookings_cursor[i])}
        first_bad == CHOOSE i \in bad : \A j \in bad : i <= j
    IN
    IF fault = "cursor.next"
    THEN \* the query is sent by the first next(); the store fails it
         failed(<<"find", "sort", "cursor.next">>, error)
    ELSE IF bad # {}
    THEN \* booking["booking_confirmation_pdf"] raises KeyError
         failed(<<"find", "sort">> \o Repeat(first_bad, "cursor.next"),
                "'booking_confirmation_pdf'")
    ELSE IF fault = "render_template"
    THEN failed(<<"find", "sort">> \o Repeat(n + 1, "cursor.next")
                \o <<"render_template">>, error)
    ELSE [response |->
              HtmlResponse(200, "bookings-dashboard.html", "",
                           [i \in 1..n |-> NormalizeBooking(bookings_cursor[i])],
                           <<>>),
          trace |-> c.trace \o <<"find", "sort">>
                    \o Repeat(n + 1, "cursor.next")
                    \o <<"render_template">> \o finally.trace,
          logged |-> c.logged,
          opened |-> c.opened, closed |-> finally.closed]

\* Variant: find_one without its filter.
find_first(collection, booking_id) ==
    IF collection = <<>> THEN None ELSE collection[1]

\* booking_collection.find_one({"booking_id": booking_id}): the first match,
\* or None.
find_one(collection, booking_id) ==
    LET hits == {i \in 1..Len(collection) :
                    collection[i].booking_id = booking_id}
    IN  IF hits = {} THEN None
        ELSE collection[CHOOSE i \in hits : \A j \in hits : i <= j]

\* f'booking_{booking_id}.pdf'
download_name_of(booking_id) == "booking_" \o ToString(booking_id) \o ".pdf"

\* booking_confirmation_pdfs(booking_id)
booking_confirmation_pdfs(booking_id, fault, error) ==
    LET c == campground_mongo_db_connection(fault, error)
        finally == close_if_client(c.client)
        prefix == "Error fetching PDF for booking ID "
                  \o ToString(booking_id) \o ": "
        failed(tr, msg) ==
            [response |->
                 except_clause("An error occurred while fetching the PDF.", msg),
             trace |-> c.trace \o tr \o <<"logging.error", "render_template">>
                       \o finally.trace,
             logged |-> c.logged \o <<prefix \o msg>>,
             opened |-> c.opened, closed |-> finally.closed]
    IN
    IF c.client = None
    THEN [response |-> ErrorPage("Unable to connect to the database."),
          trace |-> c.trace \o <<"logging.error", "render_template">>
                    \o finally.trace,
          logged |-> c.logged \o <<"MongoDB connection failed.">>,
          opened |-> c.opened, closed |-> finally.closed]
    ELSE IF fault = "find_one"
    THEN failed(<<"find_one">>, error)
    ELSE
    LET booking == find_one(booking_collection, booking_id) IN
    IF booking = None \/ ~HasPdf(booking)
    THEN \* abort(404, ...) raises NotFound inside the try block
         IF except_Exception("NotFound")
         THEN failed(<<"find_one", "abort">>,
                     "404 Not Found: Booking or PDF not found.")
         ELSE [response |-> HttpErrorResponse(404, "Booking or PDF not found."),
               trace |-> c.trace \o <<"find_one", "abort">> \o finally.trace,
               logged |-> c.logged,
               opened |-> c.opened, closed |-> finally.closed]
    ELSE [response |-> send_file(booking.booking_confirmation_pdf,
                                 "application/pdf",
                                 download_name_of(booking_id)),
          trace |-> c.trace \o <<"find_one", "send_file">> \o finally.trace,
          logged |-> c.logged,
          opened |-> c.opened, closed |-> finally.closed]

----------------------------------------------------------------------------
(* The deployments explored. *)

Variables == {"DRIVER", "SERVER", "DATABASE", "DB_USERNAME", "DB_PASSWORD",
              "CONNECTION_STRING"}

FullEnviron == [v \in Variables |-> "configured"]
Unset(v) == [w \in Variables \ {v} |-> "configured"]
Empty(v) == [FullEnviron EXCEPT ![v] = ""]

Rates == {0, 20, 35}
StoredTotals == {0, 999}
ReferenceRates == <<20, 35>>

PdfBytes(booking_id) == "%PDF-" \o ToString(booking_id)

CampsiteDocs(rates) ==
    [i \in 1..Len(rates) |->
        [site_id |-> i, site_size |-> "Medium", daily_rate |-> rates[i]]]

\* A stored booking document without its confirmation document.
BookingDoc(booking_id, booking_date, rates, stored_total) ==
    [booking_id |-> booking_id,
     customer |-> [first_name |-> "Guest", last_name |-> ToString(booking_id),
                   phone_no |-> "555", address |-> "1 Lake Road",
                   post_code |-> "0001"],
     campsites |-> CampsiteDocs(rates),
     booking_date |-> booking_date,
     arrival_date |-> booking_date + 1,
     total_price |-> stored_total]

WithPdf(doc) == doc @@ ("booking_confirmation_pdf" :> PdfBytes(doc.booking_id))

\* The documents a booking id may be stored as.
DocsOf(booking_id, rateLists, totals) ==
    LET plain == {BookingDoc(booking_id, d, r, t) :
                     d \in 1..MaxDate, r \in rateLists, t \in totals}
    IN  plain \cup {WithPdf(doc) : doc \in plain}

RateLists == UNION {[1..n -> Rates] : n \in 0..MaxSites}

\* Collections of up to MaxDocs bookings with unique ids, in any date order.
Collections ==
    UNION { {c \in [1..n -> UNION {DocsOf(i, {ReferenceRates}, {0}) : i \in 1..n}] :
                \A i \in 1..n : c[i].booking_id = i} : n \in 0..MaxDocs }

ReferenceCollection == <<WithPdf(BookingDoc(1, 1, ReferenceRates, 0))>>

BookingIds == 1..(MaxDocs + 1)

ErrorTexts == {"timed out", "Authentication failed."}
Errors(fault) == IF fault = "" THEN {""} ELSE ErrorTexts

BookingsFaults == {"", "MongoClient", "ping", "cursor.next", "render_template"}
SummariesFaults == {"", "pyodbc.connect", "connection.cursor", "cursor.execute",
                    "cursor.fetchall", "render_template"}
PdfFaults == {"", "MongoClient", "ping", "find_one"}

----------------------------------------------------------------------------
(* The state machine: one action per route. *)

Idle ==
    /\ open_clients = 0
    /\ open_connections = 0
    /\ request = [route |-> "", booking_id |-> 0, fault |-> "", error |-> ""]
    /\ response = NoResponse
    /\ trace = <<>>
    /\ logged = <<>>

\* Every collection under the complete configuration, and every configuration
\* with one variable unset or empty over the reference collection.
Init ==
    /\ Idle
    /\ \/ /\ environ = FullEnviron
          /\ booking_collection \in Collections
       \/ /\ environ \in {Unset(v) : v \in Variables} \cup {Empty(v) : v \in Variables}
          /\ booking_collection = ReferenceCollection

\* GET /
Bookings ==
    /\ open_clients < MaxLeak
    /\ \E fault \in BookingsFaults :
         \E error \in Errors(fault) :
           \E r \in {bookings(fault, error)} :
           /\ request' = [route |-> "/", booking_id |-> 0,
                          fault |-> fault, error |-> error]
           /\ response' = r.response
           /\ trace' = r.trace
           /\ logged' = r.logged
           /\ open_clients' = open_clients + r.opened - r.closed
    /\ UNCHANGED <<environ, booking_collection, open_connections>>

\* GET /summaries
Summaries ==
    /\ open_connections < MaxLeak
    /\ \E fault \in SummariesFaults :
         \E error \in Errors(fault) :
           \E r \in {summaries(fault, error)} :
           /\ request' = [route |-> "/summaries", booking_id |-> 0,
                          fault |-> fault, error |-> error]
           /\ response' = r.response
           /\ trace' = r.trace
           /\ logged' = r.logged
           /\ open_connections' = open_connections + r.opened - r.closed
    /\ UNCHANGED <<environ, booking_collection, open_clients>>

\* GET /booking-confirmation/booking-id:<booking_id>
BookingConfirmationPdfs ==
    /\ open_clients < MaxLeak
    /\ \E booking_id \in BookingIds :
         \E fault \in PdfFaults :
           \E error \in Errors(fault) :
             \E r \in {booking_confirmation_pdfs(booking_id, fault, error)} :
             /\ request' = [route |-> "/booking-confirmation",
                            booking_id |-> booking_id,
                            fault |-> fault, error |-> error]
             /\ response' = r.response
             /\ trace' = r.trace
             /\ logged' = r.logged
             /\ open_clients' = open_clients + r.opened - r.closed
    /\ UNCHANGED <<environ, booking_collection, open_connections>>

Next == Bookings \/ Summaries \/ BookingConfirmationPdfs

Spec == Init /\ [][Next]_vars

\* Record normalisation on its own: one stored booking of any campsite list and
\* any stored total, read through GET /.
InitPrice ==
    /\ Idle
    /\ environ = FullEnviron
    /\ \E doc \in DocsOf(1, RateLists, StoredTotals) :
           booking_collection = <<doc>>

SpecPrice == InitPrice /\ [][Bookings]_vars

----------------------------------------------------------------------------
(* Vocabulary of the properties. *)

Called(call) == \E i \in DOMAIN trace : trace[i] = call
Calls(call) == Cardinality({i \in DOMAIN trace : trace[i] = call})

Missing(v) == v \notin DOMAIN environ \/ environ[v] = ""

\* The stored bookings with the requested id.
Requested ==
    {i \in DOMAIN booking_collection :
        booking_collection[i].booking_id = request.booking_id}

OnBookings == request.route = "/"
OnSummaries == request.route = "/summaries"
OnPdf == request.route = "/booking-confirmation"

\* The document store answered everything this request asked of it.
DocumentStoreAnswered == ~Missing("CONNECTION_STRING") /\ request.fault = ""

RECURSIVE SumOfRates(_)
SumOfRates(campsites) ==
    IF campsites = <<>> THEN 0
    ELSE Head(campsites).daily_rate + SumOfRates(Tail(campsites))

----------------------------------------------------------------------------
(* The properties. *)

\* C1: a confirmation request for an id with no booking, or whose booking has
\* no confirmation document, made while the document store is reachable, is
\* answered 404.
C1_AbsentPdfIs404 ==
    (OnPdf /\ DocumentStoreAnswered
       /\ \A i \in Requested : ~HasPdf(booking_collection[i]))
    => response.status = 404

\* C2: GET / over a collection holding a booking without a confirmation
\* document still answers 200, and that booking's booking_confirmation_pdf is
\* None.
C2_MissingPdfIsNone ==
    (OnBookings /\ DocumentStoreAnswered
       /\ \E i \in DOMAIN booking_collection : ~HasPdf(booking_collection[i]))
    => /\ response.status = 200
       /\ Len(response.bookings) = Len(booking_collection)
       /\ \A i \in DOMAIN booking_collection :
            ~HasPdf(booking_collection[i]) =>
               \E k \in DOMAIN response.bookings :
                  /\ response.bookings[k].booking_id
                        = booking_collection[i].booking_id
                  /\ response.bookings[k].booking_confirmation_pdf = None

\* C3: after any sequence of /summaries requests, succeeding or failing, no
\* relational connection is left open.
C3_NoOpenConnection == open_connections = 0

\* C4: on / and /booking-confirmation a client the connection function returned
\* is closed exactly once, nothing is closed when it returned None, and after
\* any sequence of requests no document-store client is left open.
C4_ClientsClosed ==
    /\ (OnBookings \/ OnPdf) =>
          Calls("client.close")
             = IF ~Missing("CONNECTION_STRING")
                  /\ request.fault \notin {"MongoClient", "ping"}
               THEN 1 ELSE 0
    /\ open_clients = 0

UpstreamFaults ==
    {"MongoClient", "ping", "cursor.next", "find_one",
     "pyodbc.connect", "connection.cursor", "cursor.execute", "cursor.fetchall"}

\* A missing configuration value, a failed connection attempt, or a store
\* exception while querying, on the route of the last request.
UpstreamFailure ==
    \/ (OnBookings \/ OnPdf) /\ Missing("CONNECTION_STRING")
    \/ OnSummaries /\ \E i \in DOMAIN SqlVariables : Missing(SqlVariables[i])
    \/ request.route # "" /\ request.fault \in UpstreamFaults

GenericMessages ==
    [route \in {"/", "/summaries", "/booking-confirmation"} |->
       {"Unable to connect to the database.",
        CASE route = "/" -> "An error occurred while fetching bookings."
          [] route = "/summaries" -> "An error occurred while fetching summaries."
          [] OTHER -> "An error occurred while fetching the PDF."}]

\* C5: on every route an upstream failure is answered 500 with the error page
\* and one of the route's fixed messages, whatever the text of the error.
C5_UpstreamFailureIsGeneric500 ==
    UpstreamFailure =>
       /\ response.status = 500
       /\ response.template = "error.html"
       /\ response.message \in GenericMessages[request.route]

C5_Witness ==
    /\ OnPdf /\ request.fault = "find_one"
    /\ request.error = "Authentication failed."
    /\ response.status = 500
    /\ logged # <<>>

\* C6: with one of the five relational variables unset or empty, /summaries
\* logs the configuration error, never calls pyodbc.connect, executes no
\* query, holds no connection and answers 500.
C6_MissingVariableFailsFast ==
    (OnSummaries /\ \E i \in DOMAIN SqlVariables : Missing(SqlVariables[i]))
    => /\ ~Called("pyodbc.connect")
       /\ ~Called("connection.cursor")
       /\ ~Called("cursor.execute")
       /\ open_connections = 0
       /\ response.status = 500
       /\ logged[1] = "Error connecting to the head office database: "
                      \o "Database connection environment variables are not fully set."

C6_Witness ==
    /\ OnSummaries /\ Missing("DB_PASSWORD")
    /\ request.fault = ""
    /\ response.status = 500

\* C7: every Booking built from a stored booking has total_price equal to 7
\* times the sum of its campsites' daily rates (0 for no campsite), whatever
\* total the stored record carries.
C7_TotalPriceIsSevenTimesRates ==
    (OnBookings /\ response.status = 200) =>
       /\ Len(response.bookings) = Len(booking_collection)
       /\ \A k \in DOMAIN response.bookings :
            \E i \in DOMAIN booking_collection :
               /\ booking_collection[i].booking_id = response.bookings[k].booking_id
               /\ response.bookings[k].total_price
                     = 7 * SumOfRates(booking_collection[i].campsites)

C7_Witness ==
    /\ OnBookings /\ response.status = 200
    /\ Len(booking_collection[1].campsites) = 2
    /\ booking_collection[1].total_price = 999
    /\ response.bookings[1].total_price = 385

\* C8: a successful GET / lists exactly one Booking per stored document, in
\* ascending booking_date order, whatever the storage order.
C8_BookingsSortedOnePerDocument ==
    (OnBookings /\ response.status = 200) =>
       /\ Len(response.bookings) = Len(booking_collection)
       /\ \A i \in DOMAIN booking_collection :
            Cardinality({k \in DOMAIN response.bookings :
                            response.bookings[k].booking_id
                               = booking_collection[i].booking_id}) = 1
       /\ \A j, k \in DOMAIN response.bookings :
            j < k => response.bookings[j].booking_date
                        <= response.bookings[k].booking_date

C8_Witness ==
    /\ OnBookings /\ response.status = 200
    /\ Len(booking_collection) = 2
    /\ booking_collection[1].booking_date > booking_collection[2].booking_date
    /\ response.bookings[1].booking_id = 2

\* What C9 promises of the response: the stored bytes of the requested booking,
\* as application/pdf, named after the requested id.
ServesRequestedPdf ==
    /\ response.status = 200
    /\ response.mimetype = "application/pdf"
    /\ \E i \in Requested :
          response.data = booking_collection[i].booking_confirmation_pdf
    /\ response.download_name
          = "booking_" \o ToString(request.booking_id) \o ".pdf"

RequestedHasPdf ==
    OnPdf /\ \E i \in Requested : HasPdf(booking_collection[i])

\* C9 as stated: every request for an id whose booking has a stored
\* confirmation document is answered 200 with that document.
C9_StoredPdfAlwaysServed == RequestedHasPdf => ServesRequestedPdf

\* C9, amended: every such request that the document store answers (the
\* connection succeeds and the lookup does not fail) is answered 200 with
\* that document.
C9_StoredPdfServedWhenStoreAnswers ==
    (RequestedHasPdf /\ DocumentStoreAnswered) => ServesRequestedPdf

C9_Witness ==
    /\ OnPdf /\ request.booking_id = 2
    /\ DocumentStoreAnswered
    /\ response.status = 200
    /\ response.download_name = "booking_2.pdf"

CloseCalls == {"cursor.close", "connection.close", "client.close"}
StoreCalls ==
    {"ping", "find", "sort", "cursor.next", "find_one",
     "connection.cursor", "cursor.execute", "cursor.fetchall"}

\* C10: no handler calls a store after closing it: GET / exhausts the cursor,
\* /booking-confirmation looks the booking up and /summaries fetches the rows
\* before the close.
C10_NoStoreCallAfterClose ==
    /\ \A i, j \in DOMAIN trace :
          (i < j /\ trace[i] \in CloseCalls) => trace[j] \notin StoreCalls
    /\ (OnBookings /\ response.status = 200) =>
          /\ Calls("cursor.next") = Len(booking_collection) + 1
          /\ Called("client.close")
    /\ (OnPdf /\ response.status = 200) =>
          Called("find_one") /\ Called("client.close")
    /\ (OnSummaries /\ response.status = 200) =>
          Called("cursor.fetchall") /\ Called("connection.close")

C10_Witness ==
    /\ OnSummaries /\ response.status = 200
    /\ Called("connection.close")
    /\ response.summaries # <<>>

====
